---- MODULE Spec2Model ----
(***************************************************************************)
(* mqttgpio: a bridge between an MQTT broker and GPIO output pins.         *)
(*                                                                         *)
(* Two threads are modelled: the main thread (__main__.py: connect retry   *)
(* loop, device registry, scheduling, main loop) and the paho network      *)
(* thread started by MQTTCLIENT.loop_start(), which runs mqtt_on_connect   *)
(* and mqtt_on_message.  The methods of GPIOSwitch (__init__.py) are run   *)
(* by either thread, one statement that touches shared data per step.      *)
(***************************************************************************)
EXTENDS Integers, Sequences, FiniteSets, TLC

\* ------------------------------------------------------------------ bounds

\* Failed connect attempts the broker may answer with before it accepts.
MaxFail == 2
\* Inbound messages the network thread is handed in one run.
MaxMsgs == 2
\* Connection losses followed by an automatic reconnect.
MaxReconnects == 1
\* Seconds of main-loop time observed when commands are interleaved.
ShortHorizon == 31
\* Seconds of main-loop time observed by the scheduler specification.
LongHorizon == 600
\* Exceptions raised inside methods of GPIOSwitch.
MaxFaults == 1
\* Method calls made on a pair of Switches after their construction.
MaxTwinOps == 3

\* ------------------------------------------------------- program constants

\* time.sleep(60) after a refused connect / an unresolved hostname.
RetrySleep == 60
\* time.sleep(60) in the main loop's `except Exception` clause.
ErrorSleep == 60
\* time.sleep(1): the tick of the main loop.
TickSleep == 1
\* schedule.every(5).minutes
ConfigMinutes == 5
\* schedule.every(30).seconds
StateSeconds == 30
\* CONFIG.getint("MQTT", "MQTTQOS", fallback=2)
MQTT_QOS == 2

\* ------------------------------------------------------------------ strings

StartsWith(s, p) == Len(s) >= Len(p) /\ SubSeq(s, 1, Len(p)) = p

EndsWith(s, p) == Len(s) >= Len(p) /\ SubSeq(s, Len(s) - Len(p) + 1, Len(s)) = p

Digits == {"0", "1", "2", "3", "4", "5", "6", "7", "8", "9"}

\* Mutant: the pin text is passed on without being parsed.
IsInt_any(s) == TRUE

\* int(device_pin) raises ValueError unless the text is a decimal literal.
IsInt(s) == Len(s) > 0 /\ \A k \in 1..Len(s) : SubSeq(s, k, k) \in Digits

\* ConfigParser.getboolean: the accepted spellings, None for a ValueError.
BOOLEAN_STATES(v) ==
    IF v \in {"1", "yes", "true", "on"} THEN "True"
    ELSE IF v \in {"0", "no", "false", "off"} THEN "False"
    ELSE "ValueError"

\* ----------------------------------------------------------- configuration

\* The [Devices] sections the model is run on: option name -> value, in file
\* order.  ConfigParser lower-cases option names and rejects duplicates.
Configs ==
    { << >>,
      << [key |-> "a", value |-> "4"] >>,
      << [key |-> "a", value |-> "4"],
         [key |-> "a_default", value |-> "true"],
         [key |-> "b", value |-> "17"] >>,
      << [key |-> "a", value |-> "4"],
         [key |-> "b", value |-> "x"] >>,
      << [key |-> "a_default", value |-> "0"],
         [key |-> "a", value |-> "4"],
         [key |-> "b_default", value |-> "on"] >>,
      << [key |-> "a", value |-> "4"],
         [key |-> "a_default", value |-> "maybe"] >> }

\* The inbound topics and payloads the broker may hand to the client.
Topics == {"a/cmnd", "b/cmnd", "unknown/cmnd", "$SYS/broker/uptime"}

Payloads == {"ON", "OFF", "on", "", " ON", "TOGGLE"}

\* CONNACK reason codes: 0 is success, 134/135 are refusals.
ReasonCodes == {0, 134, 135}

Threads == {"main", "net"}

VARIABLES
    CONFIG,          \* the [Devices] section read at startup
    MOCK_PINS,       \* "arm" not in uname().machine
    horizon,         \* seconds of main-loop time observed
    faults,          \* client.publish calls that have failed
    caught,          \* device whose job raised into the main loop's handler
    interrupted,     \* a KeyboardInterrupt has been delivered
    pc,              \* position of the main thread
    attempts,        \* MQTTCLIENT.connect calls made
    sleeps,          \* time.sleep(60) calls made by the connect loop
    error,           \* the exception the last connect call raised
    clock,           \* seconds slept by the main thread since start
    idx,             \* position in CONFIG.items("Devices")
    ACTIVE_DEVICES,  \* the device list, in construction order
    state,           \* GPIOSwitch.state, per device that has the attribute
    pin_io,          \* last drive call on the device's pin
    frame,           \* per thread: the GPIOSwitch method it is executing
    published,       \* per thread: client.publish calls of its current handler
    wire,            \* the client.publish call made by the last step, if any
    jobs,            \* schedule's job list
    pending,         \* run_pending: the sorted runnable jobs still to run
    t0,              \* clock when the jobs were registered
    netpc,           \* position of the network thread
    netexc,          \* exception that ended the network thread
    subs,            \* client.subscribe calls of the current session
    connacks,        \* successful connection acknowledgements seen
    reconnects,      \* connection losses seen
    msg,             \* the inbound message being dispatched, or the last one
    scan,            \* mqtt_on_message: index of the device being compared
    matched,         \* mqtt_on_message: local variable matched
    handled,         \* devices whose handle_command the current message reached
    logged,          \* log records of the current mqtt_on_message call
    delivered,       \* inbound messages handed to mqtt_on_message so far
    twin             \* one device built twice: with real pins and with mock pins

envVars == <<CONFIG, MOCK_PINS, horizon, faults, caught, interrupted, twin>>
connVars == <<attempts, sleeps, error>>
regVars == <<idx, ACTIVE_DEVICES>>
devVars == <<state, pin_io>>
schedVars == <<jobs, pending, t0>>
sessVars == <<netexc, subs, connacks, reconnects>>
msgVars == <<msg, scan, matched, handled, logged, delivered>>
vars == <<CONFIG, MOCK_PINS, horizon, faults, caught, interrupted, pc, attempts, sleeps, error, clock, idx,
          ACTIVE_DEVICES, state, pin_io, frame, published, wire, jobs, pending,
          t0, netpc, netexc, subs, connacks, reconnects, msg, scan, matched,
          handled, logged, delivered, twin>>

\* ------------------------------------------------------------- GPIOSwitch

\* Mutant: the two names swapped.
str_state_inverted(s) == IF s THEN "OFF" ELSE "ON"

str_state(s) == IF s THEN "ON" ELSE "OFF"

\* Mutant: the device class left out of the discovery topic.
config_topic_noclass(name) == "homeassistant/" \o name \o "/config"

config_topic(name) == "homeassistant/" \o "switch" \o "/" \o name \o "/config"

state_topic(name) == name \o "/state"

\* Mutant: the state topic returned for the command topic.
command_topic_state(name) == name \o "/state"

command_topic(name) == name \o "/cmnd"

\* json.dumps({"POWER": power})
StatePayload(power) == "{\"POWER\": \"" \o power \o "\"}"

\* json.dumps of the discovery payload of announce_config
ConfigPayload(name) ==
    "{\"name\": \"" \o name
    \o "\", \"state_topic\": \"" \o state_topic(name)
    \o "\", \"command_topic\": \"" \o command_topic(name)
    \o "\", \"val_tpl\": \"{{value_json.POWER}}\"}"

Publish(topic, payload) == [topic |-> topic, payload |-> payload, qos |-> MQTT_QOS]

NoPublish == [topic |-> "", payload |-> "", qos |-> 0]

Idle ==
    [op |-> "idle", dev |-> "", arg |-> FALSE, payload |-> "", caller |-> "", rc |-> 0]

Call(op, dev, arg, caller) ==
    [op |-> op, dev |-> dev, arg |-> arg, payload |-> "", caller |-> caller, rc |-> 0]

\* Mutant: the mock branch drives high for on, as a real pin would.
DriveCall_straight(mock, value) ==
    IF mock THEN (IF value THEN "drive_high" ELSE "drive_low")
    ELSE (IF value THEN "on" ELSE "off")

\* The drive call _set_state makes on the pin for a commanded value.
DriveCall(mock, value) ==
    IF mock THEN (IF value THEN "drive_low" ELSE "drive_high")
    ELSE (IF value THEN "on" ELSE "off")

\* Assign f[k] := v, adding k to the domain when it is new.
Put(f, k, v) == [x \in DOMAIN f \cup {k} |-> IF x = k THEN v ELSE f[x]]

\* A GPIOSwitch object with the calls it has made on its client: the methods
\* below are the methods of the class run from entry to return by one thread.
NoSwitch == [mock |-> FALSE, name |-> "", state |-> FALSE, pin |-> "unbound", log |-> << >>]

GPIOSwitch_announce_config(sw) ==
    [sw EXCEPT !.log = Append(@, Publish(config_topic(sw.name), ConfigPayload(sw.name)))]

GPIOSwitch_announce_state(sw) ==
    [sw EXCEPT !.log = Append(@, Publish(state_topic(sw.name),
                                         StatePayload(str_state(sw.state))))]

\* Mutant: the mock branch stores the level it drove instead of the value.
GPIOSwitch_set_state_level(sw, value) ==
    GPIOSwitch_announce_state(
        [sw EXCEPT !.pin = DriveCall(sw.mock, value),
                   !.state = IF sw.mock THEN ~value ELSE value])

\* _set_state: drive the pin, assign self.state, announce_state.
GPIOSwitch_set_state(sw, value) ==
    GPIOSwitch_announce_state(
        [sw EXCEPT !.pin = DriveCall(sw.mock, value), !.state = value])

\* __init__: bind the pin, announce_config, _set_state(initial_state).
GPIOSwitch_init(name, mock_pins, initial_state) ==
    GPIOSwitch_set_state(
        GPIOSwitch_announce_config(
            [NoSwitch EXCEPT !.mock = mock_pins, !.name = name, !.pin = "bound"]),
        initial_state)

\* The pair before either object is constructed.
NoTwin == [n |-> 0, real |-> NoSwitch, mock |-> NoSwitch]

\* ------------------------------------------------------------------- Init

InitWith(h) ==
    /\ CONFIG \in Configs
    /\ MOCK_PINS \in BOOLEAN
    /\ horizon = h
    /\ faults = 0
    /\ caught = ""
    /\ interrupted = FALSE
    /\ twin = NoTwin
    /\ pc = "connect"
    /\ attempts = 0
    /\ sleeps = 0
    /\ error = "none"
    /\ clock = 0
    /\ idx = 1
    /\ ACTIVE_DEVICES = << >>
    /\ state = << >>
    /\ pin_io = << >>
    /\ frame = [t \in Threads |-> Idle]
    /\ published = [t \in Threads |-> << >>]
    /\ wire = NoPublish
    /\ jobs = << >>
    /\ pending = << >>
    /\ t0 = 0
    /\ netpc = "off"
    /\ netexc = "none"
    /\ subs = << >>
    /\ connacks = 0
    /\ reconnects = 0
    /\ msg = [topic |-> "", payload |-> ""]
    /\ scan = 0
    /\ matched = FALSE
    /\ handled = << >>
    /\ logged = << >>
    /\ delivered = 0

Init == InitWith(ShortHorizon)

\* ------------------------------------------------- main thread: connecting

\* Mutant: only ConnectionRefusedError has a handler.
ExceptHandler_refused(e) ==
    IF e = "ConnectionRefusedError" THEN "retry_sleep" ELSE "crashed"

\* The except clause of the retry loop that takes an exception of connect:
\* socket.gaierror and ConnectionRefusedError are handled, anything else
\* (a timeout, no route to host) ends the process with a traceback.
ExceptHandler(e) ==
    IF e \in {"gaierror", "ConnectionRefusedError"} THEN "retry_sleep" ELSE "crashed"

\* MQTTCLIENT.connect succeeds: break out of the retry loop.
ConnectOk ==
    /\ pc = "connect"
    /\ attempts' = attempts + 1
    /\ error' = "none"
    /\ pc' = "devices"
    /\ wire' = NoPublish
    /\ UNCHANGED <<envVars, sleeps, clock, regVars, devVars, frame, published,
                   schedVars, netpc, sessVars, msgVars>>

\* MQTTCLIENT.connect raises.
ConnectFail ==
    /\ pc = "connect"
    /\ attempts < MaxFail
    /\ \E e \in {"gaierror", "ConnectionRefusedError", "TimeoutError"} :
        /\ error' = e
        /\ pc' = ExceptHandler(e)
    /\ attempts' = attempts + 1
    /\ wire' = NoPublish
    /\ UNCHANGED <<envVars, sleeps, clock, regVars, devVars, frame, published,
                   schedVars, netpc, sessVars, msgVars>>

\* time.sleep(60) returns and the loop tries again.
RetrySleepDone ==
    /\ pc = "retry_sleep"
    /\ sleeps' = sleeps + 1
    /\ clock' = clock + RetrySleep
    /\ pc' = "connect"
    /\ wire' = NoPublish
    /\ UNCHANGED <<envVars, attempts, error, regVars, devVars, frame, published,
                   schedVars, netpc, sessVars, msgVars>>

\* ---------------------------------------------- main thread: the registry

\* Mutant: the companion key is never looked up.
ConfigState_ignored(cfg, name) == "False"

\* CONFIG.getboolean("Devices", name + "_default", fallback=False)
ConfigState(cfg, name) ==
    LET hits == {k \in 1..Len(cfg) : cfg[k].key = name \o "_default"}
    IN  IF hits = {} THEN "False"
        ELSE BOOLEAN_STATES(cfg[CHOOSE k \in hits : TRUE].value)

\* One turn of `for device_name, device_pin in CONFIG.items("Devices")` up to
\* the call of GPIOSwitch(...): a key ending in _default is skipped, a bad
\* companion value is an uncaught ValueError, a bad pin is sys.exit(1).
RegistryStep ==
    /\ pc = "devices"
    /\ idx <= Len(CONFIG)
    /\ LET name == CONFIG[idx].key
           pin == CONFIG[idx].value
           config_state == ConfigState(CONFIG, name)
       IN  IF EndsWith(name, "_default")
           THEN /\ idx' = idx + 1
                /\ UNCHANGED <<pc, frame, published>>
           ELSE IF config_state = "ValueError"
           THEN /\ pc' = "crashed"
                /\ UNCHANGED <<idx, frame, published>>
           ELSE IF ~IsInt(pin)
           THEN /\ pc' = "exit1"
                /\ UNCHANGED <<idx, frame, published>>
           ELSE /\ pc' = "ctor"
                /\ frame' = [frame EXCEPT
                       !["main"] = Call("__init__", name, config_state = "True", "ctor")]
                /\ published' = [published EXCEPT !["main"] = << >>]
                /\ UNCHANGED idx
    /\ wire' = NoPublish
    /\ UNCHANGED <<envVars, connVars, clock, ACTIVE_DEVICES, devVars,
                   schedVars, netpc, sessVars, msgVars>>

\* GPIOSwitch.__init__ up to announce_config: the pin is bound.
CtorBind ==
    /\ pc = "ctor"
    /\ frame["main"].op = "__init__"
    /\ pin_io' = Put(pin_io, frame["main"].dev, "bound")
    /\ frame' = [frame EXCEPT !["main"].op = "announce_config"]
    /\ wire' = NoPublish
    /\ UNCHANGED <<envVars, pc, connVars, clock, regVars, state, published,
                   schedVars, netpc, sessVars, msgVars>>

\* GPIOSwitch(...) returns and the object is appended to ACTIVE_DEVICES.
CtorReturn ==
    /\ pc = "ctor"
    /\ frame["main"].op = "return"
    /\ ACTIVE_DEVICES' = Append(ACTIVE_DEVICES, frame["main"].dev)
    /\ idx' = idx + 1
    /\ pc' = "devices"
    /\ frame' = [frame EXCEPT !["main"] = Idle]
    /\ published' = [published EXCEPT !["main"] = << >>]
    /\ wire' = NoPublish
    /\ UNCHANGED <<envVars, connVars, clock, devVars, schedVars, netpc,
                   sessVars, msgVars>>

\* --------------------------------------- GPIOSwitch methods, either thread

\* The statement that follows announce_config in its caller: __init__ goes
\* on to _set_state(initial_state), a scheduled job returns.
AfterAnnounceConfig(caller) == IF caller = "ctor" THEN "_set_state" ELSE "return"

\* announce_config: build the payload and publish it on the config topic.
AnnounceConfig(t) ==
    /\ frame[t].op = "announce_config"
    /\ LET d == frame[t].dev
           m == Publish(config_topic(d), ConfigPayload(d))
       IN  /\ published' = [published EXCEPT ![t] = Append(@, m)]
           /\ wire' = m
    /\ frame' = [frame EXCEPT ![t].op = AfterAnnounceConfig(frame[t].caller)]
    /\ UNCHANGED <<envVars, pc, connVars, clock, regVars, devVars, schedVars,
                   netpc, sessVars, msgVars>>

\* _set_state: the pin is driven (mock pins with the polarity inverted).
SetStateDrive(t) ==
    /\ frame[t].op = "_set_state"
    /\ pin_io' = Put(pin_io, frame[t].dev, DriveCall(MOCK_PINS, frame[t].arg))
    /\ frame' = [frame EXCEPT ![t].op = "assign"]
    /\ wire' = NoPublish
    /\ UNCHANGED <<envVars, pc, connVars, clock, regVars, state, published,
                   schedVars, netpc, sessVars, msgVars>>

\* Mutant: announce_state is entered before self.state is assigned, so the
\* payload is built from the value state had before the call.
SetStateAssign_late(t) ==
    /\ frame[t].op = "assign"
    /\ LET d == frame[t].dev
           before == IF d \in DOMAIN state THEN state[d] ELSE ~frame[t].arg
       IN  frame' = [frame EXCEPT ![t].payload = StatePayload(str_state(before)),
                                  ![t].op = "publish"]
    /\ state' = Put(state, frame[t].dev, frame[t].arg)
    /\ wire' = NoPublish
    /\ UNCHANGED <<envVars, pc, connVars, clock, regVars, pin_io, published,
                   schedVars, netpc, sessVars, msgVars>>

\* _set_state: self.state = state, then announce_state is called.
SetStateAssign(t) ==
    /\ frame[t].op = "assign"
    /\ state' = Put(state, frame[t].dev, frame[t].arg)
    /\ frame' = [frame EXCEPT ![t].op = "announce_state"]
    /\ wire' = NoPublish
    /\ UNCHANGED <<envVars, pc, connVars, clock, regVars, pin_io, published,
                   schedVars, netpc, sessVars, msgVars>>

\* announce_state: payload = {"POWER": self.str_state()} reads self.state.
AnnounceStateRead(t) ==
    /\ frame[t].op = "announce_state"
    /\ frame' = [frame EXCEPT
           ![t].payload = StatePayload(str_state(state[frame[t].dev])),
           ![t].op = "publish"]
    /\ wire' = NoPublish
    /\ UNCHANGED <<envVars, pc, connVars, clock, regVars, devVars, published,
                   schedVars, netpc, sessVars, msgVars>>

\* announce_state: self._publish(self.state_topic(), payload=json.dumps(payload))
AnnounceStatePublish(t) ==
    /\ frame[t].op = "publish"
    /\ LET m == Publish(state_topic(frame[t].dev), frame[t].payload)
       IN  /\ published' = [published EXCEPT ![t] = Append(@, m)]
           /\ wire' = m
    /\ frame' = [frame EXCEPT ![t].op = "return"]
    /\ UNCHANGED <<envVars, pc, connVars, clock, regVars, devVars, schedVars,
                   netpc, sessVars, msgVars>>

Method(t) ==
    \/ AnnounceConfig(t)
    \/ SetStateDrive(t)
    \/ SetStateAssign(t)
    \/ AnnounceStateRead(t)
    \/ AnnounceStatePublish(t)

\* ------------------------------------- main thread: scheduling, main loop

\* Mutant: loop_start is called without waiting for the registry loop.
LoopStart_early ==
    /\ pc = "devices"
    /\ netpc' = "connack"
    /\ pc' = "schedule"
    /\ wire' = NoPublish
    /\ UNCHANGED <<envVars, connVars, clock, regVars, devVars, frame, published,
                   schedVars, sessVars, msgVars>>

\* Every device has been constructed: MQTTCLIENT.loop_start() starts the
\* network thread, which waits for the broker's CONNACK.
LoopStart ==
    /\ pc = "devices"
    /\ idx > Len(CONFIG)
    /\ netpc' = "connack"
    /\ pc' = "schedule"
    /\ wire' = NoPublish
    /\ UNCHANGED <<envVars, connVars, clock, regVars, devVars, frame, published,
                   schedVars, sessVars, msgVars>>

\* Mutant: the job is bound to _set_state, which resets the device to off.
Job_set_state(dev, func, interval, now) ==
    [dev |-> dev, func |-> "_set_state", interval |-> interval,
     next_run |-> now + interval, runs |-> 0]

\* schedule.every(n).<unit>.do(func): the job first runs one interval from now.
Job(dev, func, interval, now) ==
    [dev |-> dev, func |-> func, interval |-> interval,
     next_run |-> now + interval, runs |-> 0]

RECURSIVE RegisterJobs(_, _)
RegisterJobs(devices, now) ==
    IF devices = << >> THEN << >>
    ELSE << Job(Head(devices), "announce_config", ConfigMinutes * 60, now),
            Job(Head(devices), "announce_state", StateSeconds, now) >>
         \o RegisterJobs(Tail(devices), now)

\* for device in ACTIVE_DEVICES: two jobs each.
Schedule ==
    /\ pc = "schedule"
    /\ jobs' = RegisterJobs(ACTIVE_DEVICES, clock)
    /\ t0' = clock
    /\ pc' = "run_pending"
    /\ wire' = NoPublish
    /\ UNCHANGED <<envVars, connVars, clock, regVars, devVars, frame, published,
                   pending, netpc, sessVars, msgVars>>

\* Mutant: a job is runnable only after its time has passed.
should_run_late(job, now) == now > job.next_run

\* Job.should_run
should_run(job, now) == now >= job.next_run

\* sorted(job for job in self.jobs if job.should_run): by next_run, and by
\* position in the job list among equals (the sort is stable).
RECURSIVE SortedJobs(_, _)
SortedJobs(js, left) ==
    IF left = {} THEN << >>
    ELSE LET first == CHOOSE j \in left : \A k \in left :
                 \/ js[j].next_run < js[k].next_run
                 \/ (js[j].next_run = js[k].next_run /\ j <= k)
         IN  << first >> \o SortedJobs(js, left \ {first})

\* One turn of the main loop up to its first job: schedule.run_pending()
\* collects the runnable jobs; with none, time.sleep(1) follows at once.
RunPending ==
    /\ pc = "run_pending"
    /\ LET due == SortedJobs(jobs, {j \in 1..Len(jobs) : should_run(jobs[j], clock)})
       IN  IF due = << >>
           THEN /\ clock - t0 < horizon
                /\ clock' = clock + TickSleep
                /\ UNCHANGED <<pc, pending>>
           ELSE /\ pending' = due
                /\ pc' = "job"
                /\ UNCHANGED clock
    /\ wire' = NoPublish
    /\ UNCHANGED <<envVars, connVars, regVars, devVars, frame, published,
                   jobs, t0, netpc, sessVars, msgVars>>

\* Job.run calls job_func().
JobStart ==
    /\ pc = "job"
    /\ frame["main"].op = "idle"
    /\ LET job == jobs[Head(pending)]
       IN  frame' = [frame EXCEPT !["main"] = Call(job.func, job.dev, FALSE, "job")]
    /\ published' = [published EXCEPT !["main"] = << >>]
    /\ wire' = NoPublish
    /\ UNCHANGED <<envVars, pc, connVars, clock, regVars, devVars, schedVars,
                   netpc, sessVars, msgVars>>

\* job_func() returned: Job.run sets last_run and _schedule_next_run(), then
\* run_pending goes to the next runnable job or returns.
JobEnd ==
    /\ pc = "job"
    /\ frame["main"].op = "return"
    /\ LET j == Head(pending)
       IN  jobs' = [jobs EXCEPT ![j].next_run = clock + jobs[j].interval,
                                ![j].runs = @ + 1]
    /\ pending' = Tail(pending)
    /\ pc' = IF Tail(pending) = << >> THEN "tick_sleep" ELSE "job"
    /\ frame' = [frame EXCEPT !["main"] = Idle]
    /\ published' = [published EXCEPT !["main"] = << >>]
    /\ wire' = NoPublish
    /\ UNCHANGED <<envVars, connVars, clock, regVars, devVars, t0, netpc,
                   sessVars, msgVars>>

\* time.sleep(1) returns after a turn that ran jobs.
Tick ==
    /\ pc = "tick_sleep"
    /\ clock - t0 < horizon
    /\ clock' = clock + TickSleep
    /\ pc' = "run_pending"
    /\ wire' = NoPublish
    /\ UNCHANGED <<envVars, connVars, regVars, devVars, frame, published,
                   schedVars, netpc, sessVars, msgVars>>

\* ------------------------------------------------------- network thread

\* reason_code.getId(str(reason_code)) > 0
ConnectionFailed(reason_code) == reason_code > 0

RECURSIVE CommandTopics(_)
CommandTopics(devices) ==
    IF devices = << >> THEN << >>
    ELSE << command_topic(Head(devices)) >> \o CommandTopics(Tail(devices))

\* The subscribe calls of mqtt_on_connect, in order.
Subscriptions(devices) == << "$SYS/#" >> \o CommandTopics(devices)

\* mqtt_on_connect: the callback of a CONNACK.  FailedToConnect is a
\* BaseException raised in the network thread: paho re-raises it and the
\* thread ends.
OnConnect ==
    /\ netpc = "connack"
    /\ \E reason_code \in ReasonCodes :
        IF ConnectionFailed(reason_code)
        THEN /\ netexc' = "FailedToConnect"
             /\ netpc' = "dead"
             /\ UNCHANGED <<subs, connacks>>
        ELSE /\ subs' = Subscriptions(ACTIVE_DEVICES)
             /\ connacks' = connacks + 1
             /\ netpc' = "wait"
             /\ UNCHANGED netexc
    /\ wire' = NoPublish
    /\ UNCHANGED <<envVars, pc, connVars, clock, regVars, devVars, frame,
                   published, schedVars, reconnects, msgVars>>

\* The connection drops; paho's loop reconnects with a fresh session and
\* waits for the CONNACK.
ConnectionLost ==
    /\ netpc = "wait"
    /\ reconnects < MaxReconnects
    /\ reconnects' = reconnects + 1
    /\ subs' = << >>
    /\ netpc' = "connack"
    /\ wire' = NoPublish
    /\ UNCHANGED <<envVars, pc, connVars, clock, regVars, devVars, frame,
                   published, schedVars, netexc, connacks, msgVars>>

\* Mutant: the payload compared without regard to case.
handle_command_casefold(payload) ==
    IF payload \in {"ON", "on"} THEN "set_true"
    ELSE IF payload \in {"OFF", "off"} THEN "set_false"
    ELSE "warning"

\* handle_command: the branch taken for a payload.
handle_command(payload) ==
    IF payload = "ON" THEN "set_true"
    ELSE IF payload = "OFF" THEN "set_false"
    ELSE "warning"

\* handle_command from entry to return.
GPIOSwitch_handle_command(sw, payload) ==
    IF handle_command(payload) = "set_true" THEN GPIOSwitch_set_state(sw, TRUE)
    ELSE IF handle_command(payload) = "set_false" THEN GPIOSwitch_set_state(sw, FALSE)
    ELSE sw

\* `for device_object in ACTIVE_DEVICES` of mqtt_on_message from position
\* L.scan, up to the next call of _set_state (L.scan then names the device) or
\* to the end of the list (L.scan = Len + 1).  A payload that is no command is
\* handled inside handle_command by a warning alone.
RECURSIVE ScanFrom(_, _, _)
ScanFrom(devices, m, L) ==
    IF L.scan > Len(devices) THEN L
    ELSE LET d == devices[L.scan]
         IN  IF m.topic # command_topic(d)
             THEN ScanFrom(devices, m, [L EXCEPT !.scan = @ + 1])
             ELSE IF handle_command(m.payload) = "warning"
             THEN ScanFrom(devices, m,
                      [scan |-> L.scan + 1, matched |-> TRUE,
                       handled |-> Append(L.handled, d),
                       logged |-> L.logged \o << "info: command", "warning: weird" >>])
             ELSE [L EXCEPT !.handled = Append(@, d),
                            !.logged = Append(@, "info: command")]

\* Mutant: the $SYS topics are not excepted.
UnknownDevice_nosys(m, isMatched) == ~isMatched

\* The record logged after the loop.
UnknownDevice(m, isMatched) == ~isMatched /\ ~StartsWith(m.topic, "$SYS")

\* mqtt_on_message goes on from loop state L: into _set_state of the device
\* it stopped at, or past the loop to the unknown-device record and return.
Proceed(m, L) ==
    /\ scan' = L.scan
    /\ matched' = L.matched
    /\ handled' = L.handled
    /\ IF L.scan <= Len(ACTIVE_DEVICES)
       THEN /\ frame' = [frame EXCEPT !["net"] =
                   Call("_set_state", ACTIVE_DEVICES[L.scan],
                        handle_command(m.payload) = "set_true", "command")]
            /\ logged' = L.logged
            /\ netpc' = "on_message"
       ELSE /\ frame' = [frame EXCEPT !["net"] = Idle]
            /\ logged' = IF UnknownDevice(m, L.matched)
                         THEN Append(L.logged, "info: unknown device")
                         ELSE L.logged
            /\ netpc' = "returned"

\* A PUBLISH arrives: mqtt_on_message is called, matched = False.
OnMessage ==
    /\ netpc = "wait"
    /\ delivered < MaxMsgs
    /\ \E topic \in Topics, payload \in Payloads :
        /\ msg' = [topic |-> topic, payload |-> payload]
        /\ Proceed(msg', ScanFrom(ACTIVE_DEVICES, msg',
               [scan |-> 1, matched |-> FALSE, handled |-> << >>, logged |-> << >>]))
    /\ delivered' = delivered + 1
    /\ published' = [published EXCEPT !["net"] = << >>]
    /\ wire' = NoPublish
    /\ UNCHANGED <<envVars, pc, connVars, clock, regVars, devVars, schedVars,
                   sessVars>>

\* handle_command returned: matched = True and the loop goes on.
CommandReturn ==
    /\ netpc = "on_message"
    /\ frame["net"].op = "return"
    /\ Proceed(msg, ScanFrom(ACTIVE_DEVICES, msg,
           [scan |-> scan + 1, matched |-> TRUE, handled |-> handled,
            logged |-> logged]))
    /\ wire' = NoPublish
    /\ UNCHANGED <<envVars, pc, connVars, clock, regVars, devVars, published,
                   schedVars, sessVars, msg, delivered>>

\* paho's loop goes back to waiting on the socket.
NetLoop ==
    /\ netpc = "returned"
    /\ netpc' = "wait"
    /\ msg' = [topic |-> "", payload |-> ""]
    /\ scan' = 0
    /\ matched' = FALSE
    /\ handled' = << >>
    /\ logged' = << >>
    /\ published' = [published EXCEPT !["net"] = << >>]
    /\ wire' = NoPublish
    /\ UNCHANGED <<envVars, pc, connVars, clock, regVars, devVars, frame,
                   schedVars, sessVars, delivered>>

\* ------------------------------------------- failures and the interrupt

\* MQTT_ERR_NO_CONN, the code client.publish returns when it cannot send.
MQTT_ERR_NO_CONN == 4

\* client.publish returns an error code.  _publish hands the result back and
\* announce_config / announce_state drop it: nothing is logged, nothing is
\* raised, the caller goes on as after a publish that worked.
PublishFails(t) ==
    /\ frame[t].op \in {"announce_config", "publish"}
    /\ LET d == frame[t].dev
           m == IF frame[t].op = "publish"
                THEN Publish(state_topic(d), frame[t].payload)
                ELSE Publish(config_topic(d), ConfigPayload(d))
       IN  published' = [published EXCEPT ![t] = Append(@, m)]
    /\ frame' = [frame EXCEPT
           ![t].op = IF frame[t].op = "publish" THEN "return"
                     ELSE AfterAnnounceConfig(frame[t].caller),
           ![t].rc = MQTT_ERR_NO_CONN]
    /\ wire' = NoPublish
    /\ UNCHANGED <<CONFIG, MOCK_PINS, horizon, twin, faults, caught, interrupted, pc,
                   connVars, clock, regVars, devVars, schedVars, netpc, sessVars,
                   msgVars>>

\* Where an exception raised inside a GPIOSwitch method ends up.  In the
\* constructor nothing catches it.  In a scheduled job it leaves run_pending
\* and reaches `except Exception` of the main loop.  In handle_command it
\* leaves mqtt_on_message on the network thread, where paho logs it and
\* raises it again: the thread ends.
Propagate(t) ==
    IF t = "net" THEN "network thread ends"
    ELSE IF pc = "job" THEN "main loop handler"
    ELSE "process ends"

\* A statement of announce_config / announce_state raises an exception.
MethodRaises(t) ==
    /\ faults < MaxFaults
    /\ frame[t].op \in {"announce_config", "announce_state", "publish"}
    /\ faults' = faults + 1
    /\ frame' = [frame EXCEPT ![t] = Idle]
    /\ published' = [published EXCEPT ![t] = << >>]
    /\ wire' = NoPublish
    /\ LET to == Propagate(t)
       IN  /\ pc' = IF to = "main loop handler" THEN "error_pause"
                    ELSE IF to = "process ends" THEN "crashed"
                    ELSE pc
           /\ caught' = IF to = "main loop handler" THEN frame[t].dev ELSE caught
           /\ pending' = IF to = "main loop handler" THEN << >> ELSE pending
           /\ netpc' = IF to = "network thread ends" THEN "dead" ELSE netpc
           /\ netexc' = IF to = "network thread ends" THEN "Exception" ELSE netexc
    /\ UNCHANGED <<CONFIG, MOCK_PINS, horizon, twin, interrupted, connVars, clock,
                   regVars, devVars, jobs, t0, subs, connacks, reconnects, msgVars>>

\* The handler has logged the error; its time.sleep(60) returns and the
\* main loop goes round again.
ErrorPauseDone ==
    /\ pc = "error_pause"
    /\ clock' = clock + ErrorSleep
    /\ caught' = ""
    /\ pc' = "run_pending"
    /\ wire' = NoPublish
    /\ UNCHANGED <<CONFIG, MOCK_PINS, horizon, twin, faults, interrupted, connVars,
                   regVars, devVars, frame, published, schedVars, netpc,
                   sessVars, msgVars>>

\* The positions of the main thread inside `try:` of the main loop, whose
\* `except KeyboardInterrupt` calls sys.exit(0).
InsideTry == {"run_pending", "job", "tick_sleep"}

Terminated == {"exit0", "exit1", "crashed", "sigint"}

\* A KeyboardInterrupt is raised in the main thread.  Inside the try block it
\* is caught and the process exits with status 0; anywhere else (the connect
\* loop, the registry, scheduling, the sleep of the error handler) nothing
\* catches it and the process dies of it.  The network thread is a daemon
\* thread and ends with the process, and with the process go its schedule and
\* its session with the broker; the pins stay as they were driven.
Interrupt ==
    /\ ~interrupted
    /\ pc \notin Terminated
    /\ interrupted' = TRUE
    /\ pc' = IF pc \in InsideTry THEN "exit0" ELSE "sigint"
    /\ netpc' = IF netpc = "off" THEN "off" ELSE "stopped"
    /\ frame' = [t \in Threads |-> Idle]
    /\ published' = [t \in Threads |-> << >>]
    /\ pending' = << >>
    /\ msg' = [topic |-> "", payload |-> ""]
    /\ scan' = 0
    /\ matched' = FALSE
    /\ handled' = << >>
    /\ logged' = << >>
    /\ jobs' = << >>
    /\ subs' = << >>
    /\ wire' = NoPublish
    /\ UNCHANGED <<CONFIG, MOCK_PINS, horizon, twin, faults, caught, connVars, clock,
                   regVars, devVars, t0, netexc, connacks, reconnects, delivered>>

MainThread ==
    \/ ConnectOk
    \/ ConnectFail
    \/ RetrySleepDone
    \/ RegistryStep
    \/ CtorBind
    \/ CtorReturn
    \/ LoopStart
    \/ Schedule
    \/ RunPending
    \/ JobStart
    \/ JobEnd
    \/ Tick
    \/ Method("main")

\* Mutant: no loop_start thread; the client is polled by the main loop
\* between two sleeps.
NetThread_polled ==
    /\ pc = "run_pending"
    /\ \/ OnConnect
       \/ ConnectionLost
       \/ OnMessage
       \/ CommandReturn
       \/ NetLoop
       \/ Method("net")

NetThread ==
    \/ OnConnect
    \/ ConnectionLost
    \/ OnMessage
    \/ CommandReturn
    \/ NetLoop
    \/ Method("net")

Next == MainThread \/ NetThread

Spec == Init /\ [][Next]_vars

InitSched == InitWith(LongHorizon)

\* The main thread and the connection callback alone: no inbound message.
NextSched == MainThread \/ OnConnect \/ ConnectionLost

SpecSched == InitSched /\ [][NextSched]_vars

\* The program with publishes that fail and with the operator's interrupt.
NextFault ==
    \/ Next
    \/ \E t \in Threads : PublishFails(t)
    \/ \E t \in Threads : MethodRaises(t)
    \/ ErrorPauseDone
    \/ Interrupt

SpecFault == Init /\ [][NextFault]_vars

\* ------------------------------------- one device with real and mock pins

\* Every variable of the running program: the pair below is driven directly.
progVars == <<pc, connVars, clock, regVars, devVars, frame, published, wire,
              schedVars, netpc, sessVars, msgVars>>

\* GPIOSwitch(name, ..., initial_state=config_state) for a device of the
\* configuration, once with MOCK_PINS false and once with MOCK_PINS true.
TwinConstruct ==
    /\ twin.n = 0
    /\ \E k \in 1..Len(CONFIG) :
          LET name == CONFIG[k].key
              config_state == ConfigState(CONFIG, name)
          IN  /\ ~EndsWith(name, "_default")
              /\ config_state # "ValueError"
              /\ IsInt(CONFIG[k].value)
              /\ twin' = [n |-> 1,
                          real |-> GPIOSwitch_init(name, FALSE, config_state = "True"),
                          mock |-> GPIOSwitch_init(name, TRUE, config_state = "True")]
    /\ UNCHANGED <<CONFIG, MOCK_PINS, horizon, faults, caught, interrupted, progVars>>

\* An inbound command for the device: handle_command(payload) on both.
TwinCommand ==
    /\ twin.n \in 1..MaxTwinOps
    /\ \E payload \in Payloads :
          twin' = [n |-> twin.n + 1,
                   real |-> GPIOSwitch_handle_command(twin.real, payload),
                   mock |-> GPIOSwitch_handle_command(twin.mock, payload)]
    /\ UNCHANGED <<CONFIG, MOCK_PINS, horizon, faults, caught, interrupted, progVars>>

\* The 30-second job: announce_state on both.
TwinAnnounceState ==
    /\ twin.n \in 1..MaxTwinOps
    /\ twin' = [n |-> twin.n + 1,
                real |-> GPIOSwitch_announce_state(twin.real),
                mock |-> GPIOSwitch_announce_state(twin.mock)]
    /\ UNCHANGED <<CONFIG, MOCK_PINS, horizon, faults, caught, interrupted, progVars>>

\* The 5-minute job: announce_config on both.
TwinAnnounceConfig ==
    /\ twin.n \in 1..MaxTwinOps
    /\ twin' = [n |-> twin.n + 1,
                real |-> GPIOSwitch_announce_config(twin.real),
                mock |-> GPIOSwitch_announce_config(twin.mock)]
    /\ UNCHANGED <<CONFIG, MOCK_PINS, horizon, faults, caught, interrupted, progVars>>

NextTwin == TwinConstruct \/ TwinCommand \/ TwinAnnounceState \/ TwinAnnounceConfig

SpecTwin == Init /\ [][NextTwin]_vars

\* ------------------------------------------------------------ properties

Range(q) == {q[k] : k \in 1..Len(q)}

IsPrefix(p, q) == Len(p) <= Len(q) /\ SubSeq(q, 1, Len(p)) = p

\* The device names of a [Devices] section, in file order.
RECURSIVE DeviceKeys(_)
DeviceKeys(cfg) ==
    IF cfg = << >> THEN << >>
    ELSE LET k == Head(cfg).key
         IN  IF Len(k) >= 8 /\ SubSeq(k, Len(k) - 7, Len(k)) = "_default"
             THEN DeviceKeys(Tail(cfg))
             ELSE << k >> \o DeviceKeys(Tail(cfg))

\* The initial state the configuration gives a device.
InitialOn(cfg, name) ==
    \E k \in 1..Len(cfg) :
        cfg[k].key = name \o "_default" /\ cfg[k].value \in {"1", "yes", "true", "on"}

\* C1: while GPIOSwitch(name, ...) runs, its publishes are a prefix of
\* <<config announcement, state announcement carrying the initial state>>, and
\* when it returns they are exactly these two, in this order, at QoS 2; the
\* network thread has published nothing.
C1_ConstructionPublishes ==
    pc = "ctor" =>
        LET d == CONFIG[idx].key
            power == IF InitialOn(CONFIG, d) THEN "ON" ELSE "OFF"
            expected ==
                << [topic |-> "homeassistant/switch/" \o d \o "/config",
                    payload |-> "{\"name\": \"" \o d \o "\", \"state_topic\": \""
                                \o d \o "/state\", \"command_topic\": \"" \o d
                                \o "/cmnd\", \"val_tpl\": \"{{value_json.POWER}}\"}",
                    qos |-> 2],
                   [topic |-> d \o "/state",
                    payload |-> "{\"POWER\": \"" \o power \o "\"}",
                    qos |-> 2] >>
        IN  /\ frame["main"].dev = d
            /\ IsPrefix(published["main"], expected)
            /\ frame["main"].op = "return" => published["main"] = expected
            /\ published["net"] = << >>

\* A constructor has returned for a device configured ON.
C1_Witness ==
    /\ pc = "ctor"
    /\ frame["main"].op = "return"
    /\ InitialOn(CONFIG, frame["main"].dev)
    /\ Len(published["main"]) = 2

\* C2: when handle_command(b"ON") returns, state is true and the call has
\* issued one publish on {name}/state with payload {"POWER": "ON"};
\* handle_command(b"OFF") is the dual.
C2_CommandSetsAndAnnounces ==
    (netpc = "on_message" /\ frame["net"].op = "return") =>
        LET d == frame["net"].dev
        IN  /\ msg.payload \in {"ON", "OFF"}
            /\ msg.topic = d \o "/cmnd"
            /\ state[d] = (msg.payload = "ON")
            /\ published["net"] =
                   << [topic |-> d \o "/state",
                       payload |-> IF msg.payload = "ON" THEN "{\"POWER\": \"ON\"}"
                                   ELSE "{\"POWER\": \"OFF\"}",
                       qos |-> 2] >>

\* handle_command(b"ON") has returned on a device that was ON already: it
\* was configured ON and this is the first inbound message.
C2_Witness ==
    /\ netpc = "on_message"
    /\ frame["net"].op = "return"
    /\ frame["net"].dev = "a"
    /\ InitialOn(CONFIG, "a")
    /\ msg.payload = "ON"
    /\ delivered = 1
    /\ Len(published["net"]) = 1

\* C3: the step that hands mqtt_on_message a payload other than b"ON" and
\* b"OFF" runs the callback to its return: no state and no pin changes, nothing
\* is published, nothing is raised, and every handle_command it reached logged
\* its warning.
C3_OtherPayloadIgnored ==
    [][(delivered' = delivered + 1 /\ msg'.payload \notin {"ON", "OFF"}) =>
          /\ state' = state
          /\ pin_io' = pin_io
          /\ published'["net"] = << >>
          /\ wire' = NoPublish
          /\ frame'["net"].op = "idle"
          /\ netpc' = "returned"
          /\ netexc' = "none"
          /\ Len(SelectSeq(logged', LAMBDA r : r = "warning: weird")) = Len(handled')
          /\ handled' = SelectSeq(ACTIVE_DEVICES, LAMBDA d : d \o "/cmnd" = msg'.topic)
      ]_vars

\* mqtt_on_message has returned from handle_command(b" ON") on device a.
C3_Witness ==
    /\ netpc = "returned"
    /\ msg = [topic |-> "a/cmnd", payload |-> " ON"]
    /\ handled = << "a" >>
    /\ "warning: weird" \in Range(logged)
    /\ published["net"] = << >>

\* C4: handle_command is called on the devices whose command topic is the
\* inbound topic and on no other; when mqtt_on_message returns it has been
\* called on all of them, and the unknown-device record is logged exactly when
\* there was none and the topic does not start with $SYS.  Nothing is raised.
C4_RouterMatchesTopic ==
    netpc \in {"on_message", "returned"} =>
        LET owners == SelectSeq(ACTIVE_DEVICES, LAMBDA d : d \o "/cmnd" = msg.topic)
        IN  /\ IsPrefix(handled, owners)
            /\ netexc = "none"
            /\ netpc = "returned" =>
                  /\ handled = owners
                  /\ ("info: unknown device" \in Range(logged))
                        <=> (owners = << >> /\ SubSeq(msg.topic, 1, 4) # "$SYS")

\* With devices a and b registered, a message on a/cmnd reached a alone.
C4_Witness ==
    /\ netpc = "returned"
    /\ ACTIVE_DEVICES = << "a", "b" >>
    /\ msg = [topic |-> "a/cmnd", payload |-> "ON"]
    /\ handled = << "a" >>
    /\ logged = << "info: command" >>

\* The device whose state topic a publish is on.
StateTopicOwner(m) == {d \in DOMAIN state : m.topic = d \o "/state"}

\* C5: every publish on {name}/state carries, at the moment it is issued, the
\* current value of state: POWER is ON iff state is true.
C5_NoStalePublish ==
    \A d \in StateTopicOwner(wire) :
        SubSeq(wire.payload, 12, Len(wire.payload) - 2)
            = (IF state[d] THEN "ON" ELSE "OFF")

\* C6: in every _set_state(v), by either thread: once the pin step is over the
\* pin is driven to v; once the assignment is over state is v as well; the
\* payload built afterwards and the publish that ends the call carry v.
C6_SetStateOrder ==
    \A t \in Threads :
        LET f == frame[t]
            driven == pin_io[f.dev] \in (IF f.arg THEN {"on", "drive_low"}
                                         ELSE {"off", "drive_high"})
            carries == IF f.arg THEN "{\"POWER\": \"ON\"}" ELSE "{\"POWER\": \"OFF\"}"
        IN  f.caller \in {"ctor", "command"} =>
              /\ f.op = "assign" => driven
              /\ f.op = "announce_state" => driven /\ state[f.dev] = f.arg
              /\ f.op = "publish" =>
                     driven /\ state[f.dev] = f.arg /\ f.payload = carries
              /\ f.op = "return" =>
                     /\ driven
                     /\ state[f.dev] = f.arg
                     /\ published[t] # << >>
                     /\ published[t][Len(published[t])] =
                            [topic |-> f.dev \o "/state", payload |-> carries, qos |-> 2]

\* A command has changed a device from OFF to ON and its announcement is out.
C6_Witness ==
    /\ frame["net"].op = "return"
    /\ frame["net"].arg = TRUE
    /\ ~InitialOn(CONFIG, frame["net"].dev)
    /\ delivered = 1
    /\ wire.payload = "{\"POWER\": \"ON\"}"

\* C7: whenever the client is connected and its connect callback has run, on
\* the first connection and after every reconnect, the session holds a
\* subscription to $SYS/# and to {name}/cmnd of every configured device.
C7_SubscribedAfterConnect ==
    netpc \in {"wait", "on_message", "returned"} =>
        /\ "$SYS/#" \in Range(subs)
        /\ ACTIVE_DEVICES = DeviceKeys(CONFIG)
        /\ \A d \in Range(ACTIVE_DEVICES) : (d \o "/cmnd") \in Range(subs)
        /\ Len(subs) = 1 + Len(ACTIVE_DEVICES)

\* The callback has run for a reconnect, with two devices registered.
C7_Witness ==
    /\ netpc = "wait"
    /\ reconnects = 1
    /\ connacks = 2
    /\ ACTIVE_DEVICES = << "a", "b" >>
    /\ subs = << "$SYS/#", "a/cmnd", "b/cmnd" >>

\* C8: once the connect callback has raised FailedToConnect, the main loop
\* does not go through another turn of run_pending as if connected.
C8_FailureReachesMainLoop ==
    [][(netexc = "FailedToConnect" /\ pc = "run_pending")
          => pc' \notin {"run_pending", "job"}]_vars

\* C9: the connect loop sleeps 60 seconds once per failed attempt and not at
\* all after the attempt that succeeds; when device construction starts after
\* k failures it has made k+1 attempts and slept k times 60 seconds; a refused
\* connection or an unresolved hostname never ends the process.
C9_ConnectRetry ==
    /\ pc = "connect" => sleeps = attempts /\ clock = 60 * attempts
    /\ pc = "retry_sleep" =>
          /\ error \in {"gaierror", "ConnectionRefusedError"}
          /\ sleeps = attempts - 1
          /\ clock = 60 * sleeps
    /\ (pc = "crashed" /\ error # "none") =>
          error \notin {"gaierror", "ConnectionRefusedError"}
    /\ (pc = "devices" /\ idx = 1) =>
          /\ error = "none"
          /\ attempts = sleeps + 1
          /\ clock = 60 * (attempts - 1)
    /\ pc \notin {"connect", "retry_sleep", "crashed"} => attempts = sleeps + 1

\* Two failed attempts, then the third succeeded.
C9_Witness ==
    /\ pc = "devices"
    /\ idx = 1
    /\ attempts = 3
    /\ sleeps = 2
    /\ clock = 120

\* The main loop is between turns: no runnable job is waiting to be run.
Settled ==
    \/ pc = "tick_sleep"
    \/ pc = "run_pending" /\ \A j \in 1..Len(jobs) : jobs[j].next_run > clock

\* C10: with the clock advanced one second per turn of the main loop, between
\* turns every device's announce_config has run once per 300 seconds and its
\* announce_state once per 30 seconds since registration; from the turn at 600
\* seconds on that is at least 2 and at least 20, for every device.
C10_ScheduleCadence ==
    Settled =>
        /\ Len(jobs) = 2 * Len(ACTIVE_DEVICES)
        /\ \A d \in Range(ACTIVE_DEVICES) :
              \E c, a \in 1..Len(jobs) :
                  /\ jobs[c].dev = d /\ jobs[c].func = "announce_config"
                  /\ jobs[a].dev = d /\ jobs[a].func = "announce_state"
                  /\ jobs[c].runs = (clock - t0) \div 300
                  /\ jobs[a].runs = (clock - t0) \div 30
                  /\ clock - t0 >= 600 => jobs[c].runs >= 2 /\ jobs[a].runs >= 20

\* Ten minutes after registration, two devices, every job run on time.
C10_Witness ==
    /\ pc = "tick_sleep"
    /\ clock - t0 = 600
    /\ Len(ACTIVE_DEVICES) = 2
    /\ \A j \in 1..Len(jobs) : jobs[j].runs = (IF jobs[j].func = "announce_state" THEN 20 ELSE 2)

\* C11: the main thread never sleeps while an announcement of a device is
\* due, unless it is that device's own announcement that failed: a failing
\* job of one device does not delay the due jobs of another.
C11_NoCrossDeviceDelay ==
    [][clock' > clock =>
          \A j \in 1..Len(jobs) : jobs[j].next_run <= clock => jobs[j].dev = caught
      ]_vars

\* C12: an exception raised in steady state, in a scheduled job or in the
\* dispatch of an inbound command, is in the hands of the main loop's handler
\* (error logged, 60-second pause) and leaves the network thread dispatching.
C12_ErrorsCaughtByMainLoop ==
    /\ (caught # "" /\ ~interrupted) => pc = "error_pause"
    /\ netexc = "Exception" => (netpc # "dead" /\ pc = "error_pause")

\* C13: after a KeyboardInterrupt, wherever it arrived, the process has
\* exited with status 0 and the network thread is not running.
C13_InterruptExitsZero ==
    interrupted => (pc = "exit0" /\ netpc \in {"off", "stopped"})

\* The pin texts of the configurations above that int() accepts.
IntegerTexts == {"4", "17"}

\* A key that overrides the initial state of another key.
IsCompanionKey(k) == Len(k) >= 8 /\ SubSeq(k, Len(k) - 7, Len(k)) = "_default"

\* The positions in CONFIG of devices whose pin does not parse.
BadPins ==
    {k \in 1..Len(CONFIG) :
        ~IsCompanionKey(CONFIG[k].key) /\ CONFIG[k].value \notin IntegerTexts}

\* C14: with a device whose pin is no integer the network thread is never
\* started and no job is registered; the registry never gets past that device,
\* for which no pin is bound, no state set and no constructor entered; the
\* process exits with status 1 exactly at such a device.
C14_BadPinIsFatal ==
    /\ BadPins # {} =>
          /\ netpc = "off"
          /\ jobs = << >>
          /\ pc \notin {"schedule", "run_pending", "job", "tick_sleep"}
          /\ \A k \in BadPins :
                /\ idx <= k
                /\ CONFIG[k].key \notin DOMAIN pin_io
                /\ CONFIG[k].key \notin DOMAIN state
                /\ CONFIG[k].key \notin Range(ACTIVE_DEVICES)
                /\ frame["main"].dev # CONFIG[k].key
    /\ pc = "exit1" <=> (idx \in BadPins /\ pc \notin {"devices", "ctor"})
    /\ (idx \in BadPins /\ pc = "ctor") => FALSE

\* The process has exited at the second device, after constructing the first.
C14_Witness ==
    /\ pc = "exit1"
    /\ ACTIVE_DEVICES = << "a" >>
    /\ CONFIG[idx].value = "x"
    /\ "a" \in DOMAIN state

\* C15: the registry is at every moment a prefix of the keys of the section
\* that do not end in _default, in file order, and is all of them once the
\* loop is over; no two entries share a name or a command topic; each
\* constructor is entered with initial state true iff the companion key is
\* there with a true value, and that is the state the Switch holds until the
\* network thread starts.
C15_RegistryFromConfig ==
    /\ IsPrefix(ACTIVE_DEVICES, DeviceKeys(CONFIG))
    /\ (pc = "devices" /\ idx > Len(CONFIG)) => ACTIVE_DEVICES = DeviceKeys(CONFIG)
    /\ netpc # "off" => ACTIVE_DEVICES = DeviceKeys(CONFIG)
    /\ \A i, j \in 1..Len(ACTIVE_DEVICES) :
          i # j => /\ ACTIVE_DEVICES[i] # ACTIVE_DEVICES[j]
                   /\ command_topic(ACTIVE_DEVICES[i]) # command_topic(ACTIVE_DEVICES[j])
    /\ \A i \in 1..Len(ACTIVE_DEVICES) :
          /\ ~IsCompanionKey(ACTIVE_DEVICES[i])
          /\ ACTIVE_DEVICES[i] \in DOMAIN state
    /\ pc = "ctor" =>
          /\ frame["main"].dev \notin Range(ACTIVE_DEVICES)
          /\ frame["main"].arg = InitialOn(CONFIG, frame["main"].dev)
    /\ netpc = "off" =>
          \A d \in DOMAIN state : state[d] = InitialOn(CONFIG, d)

\* The registry loop is over for a section with a device whose companion is
\* true, a device without companion, and nothing else.
C15_Witness ==
    /\ pc = "devices"
    /\ idx > Len(CONFIG)
    /\ ACTIVE_DEVICES = << "a", "b" >>
    /\ Len(CONFIG) = 3
    /\ state["a"] = TRUE
    /\ state["b"] = FALSE

\* C16: a device constructed with real pins and with mock pins, and given
\* the same commands and scheduled announcements, has after every call the
\* same state and the same sequence of publishes (topic, payload, QoS, order);
\* only the drive calls differ: on / off against drive_low / drive_high.
C16_MockRealEquivalent ==
    twin.n > 0 =>
        /\ twin.real.state = twin.mock.state
        /\ twin.real.log = twin.mock.log
        /\ twin.real.pin = "on" <=> twin.mock.pin = "drive_low"
        /\ twin.real.pin = "off" <=> twin.mock.pin = "drive_high"
        /\ twin.real.pin \in {"on", "off"}
        /\ twin.mock.pin = "drive_low" <=> twin.mock.state

\* The pair has gone through its calls, a command ON last, after being off.
C16_Witness ==
    /\ twin.n = MaxTwinOps + 1
    /\ twin.mock.pin = "drive_low"
    /\ twin.real.pin = "on"
    /\ Len(twin.mock.log) = 5
    /\ twin.mock.log[2].payload = StatePayload("OFF")
    /\ twin.mock.log[5].payload = StatePayload("ON")

\* C17: when the publish of the state announcement inside a commanded
\* _set_state has failed, handle_command returns normally with the pin and
\* state at the commanded value, and a record of the failure has been logged.
C17_PublishFailureLogged ==
    \A t \in Threads :
        (frame[t].op = "return" /\ frame[t].caller = "command" /\ frame[t].rc # 0) =>
            /\ state[frame[t].dev] = frame[t].arg
            /\ pin_io[frame[t].dev] = DriveCall(MOCK_PINS, frame[t].arg)
            /\ netexc = "none"
            /\ \E r \in Range(logged) : r \notin {"info: command", "info: unknown device"}

\* The devices whose state or pin a step has changed.
Touched ==
    {d \in DOMAIN state' \cup DOMAIN pin_io' :
        \/ d \notin DOMAIN pin_io
        \/ pin_io'[d] # pin_io[d]
        \/ d \in DOMAIN state' /\ (d \notin DOMAIN state \/ state'[d] # state[d])}

\* C18: a step changes the state or pin of a device only as a step of that
\* device's constructor on the main thread, or of the _set_state that the
\* network thread runs for a message on that device's command topic with
\* payload ON or OFF.  A step of a scheduled job changes no state and no pin;
\* each config announcement carries the one payload of its device and each
\* state announcement is built from the state alone.
C18_FrameEffect ==
    [][/\ \A d \in Touched :
             \E t \in Threads :
                /\ frame[t].dev = d
                /\ frame'[t] # frame[t]
                /\ frame[t].op \in {"__init__", "_set_state", "assign"}
                /\ \/ t = "main" /\ pc = "ctor" /\ frame[t].caller = "ctor"
                   \/ /\ t = "net"
                      /\ netpc = "on_message"
                      /\ frame[t].caller = "command"
                      /\ msg.topic = d \o "/cmnd"
                      /\ msg.payload \in {"ON", "OFF"}
       /\ (frame'["main"] # frame["main"] /\ frame["main"].caller = "job"
              /\ frame'["net"] = frame["net"]) => Touched = {}
       /\ (netpc' # netpc /\ netpc \in {"connack", "wait"}) => Touched = {}
       /\ clock' # clock => Touched = {}
       /\ \A d \in DOMAIN state :
             /\ wire'.topic = config_topic(d) => wire'.payload = ConfigPayload(d)
             /\ \A t \in Threads :
                   (frame[t].op = "announce_state" /\ frame[t].dev = d
                        /\ frame'[t].op = "publish") =>
                      frame'[t].payload = StatePayload(str_state(state[d]))
      ]_vars

\* A scheduled announcement of a has run and a command for b has been
\* handled: b is on, a holds its initial state.
C18_Witness ==
    /\ frame["net"].op = "return"
    /\ frame["net"].dev = "b"
    /\ msg = [topic |-> "b/cmnd", payload |-> "ON"]
    /\ state = [a |-> TRUE, b |-> TRUE]
    /\ \E j \in 1..Len(jobs) : jobs[j].dev = "a" /\ jobs[j].runs >= 1

\* The last connect call returned without raising.
ConnectSucceeded ==
    pc \notin {"connect", "retry_sleep"} /\ error = "none" /\ attempts = sleeps + 1

\* Nothing of a Switch exists and no constructor is running.
NothingConstructed ==
    /\ ACTIVE_DEVICES = << >>
    /\ DOMAIN pin_io = {}
    /\ DOMAIN state = {}
    /\ frame["main"] = Idle

\* The network thread has not run: no CONNACK handled, no subscription, no
\* message dispatched, no method entered.
TransportIdle ==
    /\ subs = << >>
    /\ connacks = 0
    /\ delivered = 0
    /\ frame["net"] = Idle
    /\ netexc = "none"

\* C19: until a connect call has succeeded nothing of a Switch exists; the
\* network thread is started only with every configured Switch constructed and
\* its constructor returned; jobs are registered only after loop_start.  While
\* the device list is not complete the network thread is off and idle, and no
\* job is registered or has run.
C19_PhaseOrder ==
    /\ ~ConnectSucceeded => (NothingConstructed /\ netpc = "off" /\ jobs = << >>)
    /\ netpc # "off" =>
          /\ ACTIVE_DEVICES = DeviceKeys(CONFIG)
          /\ Range(ACTIVE_DEVICES) = DOMAIN state
          /\ Range(ACTIVE_DEVICES) = DOMAIN pin_io
          /\ frame["main"].caller # "ctor"
          /\ idx > Len(CONFIG)
    /\ netpc = "off" => (TransportIdle /\ jobs = << >> /\ pending = << >>)
    /\ (jobs # << >> \/ pc \in {"run_pending", "job", "tick_sleep"}) => netpc # "off"
    /\ ACTIVE_DEVICES # DeviceKeys(CONFIG) =>
          /\ netpc = "off"
          /\ TransportIdle
          /\ jobs = << >>
          /\ pc \in {"connect", "retry_sleep", "devices", "ctor", "crashed", "exit1"}
    /\ frame["main"].caller = "job" => jobs # << >>

\* Connected at the second attempt, two devices constructed, the network
\* thread dispatching a command and the jobs registered.
C19_Witness ==
    /\ sleeps = 1
    /\ ACTIVE_DEVICES = << "a", "b" >>
    /\ netpc = "on_message"
    /\ Len(jobs) = 4
    /\ frame["net"].caller = "command"

\* C20: wherever the main thread is, in its tick sleep and in its error
\* pause included, the network thread can take a message it is waiting for
\* and can take the next step of a message it is handling; and whatever the
\* network thread is doing, the main loop can take its next step: run a due
\* job, finish a job, or wake from its sleep.
C20_DispatchIndependent ==
    /\ (netpc = "wait" /\ delivered < MaxMsgs) => ENABLED OnMessage
    /\ netpc \in {"on_message", "returned"} => ENABLED NetThread
    /\ pc = "job" => ENABLED MainThread
    /\ pc = "error_pause" => ENABLED ErrorPauseDone
    /\ (pc \in {"run_pending", "tick_sleep"} /\ clock - t0 < horizon) => ENABLED MainThread

\* The main loop is in its 60-second error pause, entered at the first
\* scheduled announcement, and a command has been handled to its end.
C20_Witness ==
    /\ pc = "error_pause"
    /\ clock = t0 + StateSeconds
    /\ netpc = "on_message"
    /\ frame["net"].op = "return"
    /\ frame["net"].rc = 0
    /\ state[frame["net"].dev] = frame["net"].arg
    /\ pin_io[frame["net"].dev] = DriveCall(MOCK_PINS, frame["net"].arg)
    /\ Len(published["net"]) = 1

\* A thread is inside _set_state of device d, between entry and the
\* assignment of self.state.
SetStateInProgress(d) ==
    \E t \in Threads : frame[t].dev = d /\ frame[t].op \in {"_set_state", "assign"}

\* C21: while the process has not been interrupted, publishes may fail and
\* methods may raise, and still for every device that has a state and no
\* _set_state in progress the last drive call on its pin is the one of its
\* state: with real pins on for true and off for false, with mock pins
\* drive_low for true and drive_high for false.
C21_StateAgreesWithPin ==
    \A d \in DOMAIN state :
        (~interrupted /\ ~SetStateInProgress(d)) =>
            /\ d \in DOMAIN pin_io
            /\ ~MOCK_PINS => /\ pin_io[d] \in {"on", "off"}
                             /\ pin_io[d] = "on" <=> state[d]
            /\ MOCK_PINS => /\ pin_io[d] \in {"drive_low", "drive_high"}
                            /\ pin_io[d] = "drive_low" <=> state[d]

\* With mock pins, a device that started off has been commanded on and the
\* handler has returned.
C21_Witness ==
    /\ ~interrupted
    /\ MOCK_PINS
    /\ Len(CONFIG) = 1
    /\ delivered >= 1
    /\ netpc = "wait"
    /\ frame = [t \in Threads |-> Idle]
    /\ state = [a |-> TRUE]
    /\ pin_io = [a |-> "drive_low"]

====
